---- MODULE Spec2Model ----
\* Model of the configuration parameter helper templates of gcomm/conf.hpp:
\* _conf_param<T> and the entry points conf_param, conf_param_def,
\* conf_param_range, conf_param_def_min, conf_param_def_max and
\* conf_param_def_range, instantiated for T = int.
EXTENDS Integers, Sequences, FiniteSets

\* ---------------------------------------------------------------- bounds

\* Longest raw option text held by the URI.
MaxLen == 2

\* Defaults, minimums and maximums passed by callers range over 0..MaxVal.
MaxVal == 2

\* ---------------------------------------------------------------- universe

\* Option keys that the URI may carry and that callers may ask for.
Keys == {"evs.send_window", "evs.user_send_window"}

\* Characters of a raw option text: decimal digits and a non-digit.
Chars == {"0", "1", "x"}

RawStrings == UNION {[1..n -> Chars] : n \in 1..MaxLen}

Values == 0..MaxVal

\* A pointer argument (const T*): the null pointer, or a pointer to a value.
NULL == <<>>

Ptr(v) == <<v>>

Deref(p) == p[1]

Pointers == {NULL} \cup {Ptr(v) : v \in Values}

Entries == {"_conf_param", "conf_param", "conf_param_def", "conf_param_range",
            "conf_param_def_min", "conf_param_def_max", "conf_param_def_range"}

\* ---------------------------------------------------------------- state

VARIABLES
    uri,      \* the option list of the gu::URI: key -> [found, val]
    last,     \* the latest call of an entry point, with its outcome
    held,     \* a call whose outcome a caller keeps
    again,    \* the outcome of repeating the held call
    others    \* whether other callers resolved since the held call

vars == <<uri, last, held, again, others>>

\* ---------------------------------------------------------------- gu library

NotFound == [found |-> FALSE, val |-> <<>>]

Found(raw) == [found |-> TRUE, val |-> raw]

\* gu::URI::get_option: the raw text stored under key, or gu::NotFound.
get_option(u, key) == u[key]

DigitValue(c) == IF c = "0" THEN 0 ELSE IF c = "1" THEN 1 ELSE -1

RECURSIVE Decimal(_)
Decimal(s) ==
    IF Len(s) = 0 THEN 0
    ELSE 10 * Decimal(SubSeq(s, 1, Len(s) - 1)) + DigitValue(s[Len(s)])

\* gu::from_string<int>: the decimal value of a text made of digits only,
\* a conversion failure otherwise.
from_string(s) ==
    IF Len(s) > 0 /\ \A i \in 1..Len(s) : DigitValue(s[i]) >= 0
    THEN [ok |-> TRUE, val |-> Decimal(s)]
    ELSE [ok |-> FALSE, val |-> 0]

\* ---------------------------------------------------------------- outcomes

Return(param, v) ==
    [kind |-> "ok", param |-> param, value |-> v, bound |-> 0]

MissingParameter(param) ==
    [kind |-> "MissingParameter", param |-> param, value |-> 0, bound |-> 0]

InvalidValue(param) ==
    [kind |-> "InvalidValue", param |-> param, value |-> 0, bound |-> 0]

BelowMinimum(param, v, mn) ==
    [kind |-> "BelowMinimum", param |-> param, value |-> v, bound |-> mn]

AboveMaximum(param, v, mx) ==
    [kind |-> "AboveMaximum", param |-> param, value |-> v, bound |-> mx]

\* ---------------------------------------------------------------- resolver

\* read_or_default with a catch clause that takes every exception: a
\* conversion failure is handled like a missing option.
read_or_default_catch_all(u, param, default_value) ==
    LET opt  == get_option(u, param)
        conv == from_string(opt.val)
    IN  IF opt.found /\ conv.ok
        THEN Return(param, conv.val)
        ELSE IF default_value = NULL
             THEN MissingParameter(param)
             ELSE Return(param, Deref(default_value))

\* read_or_default without the throw for a null default: ret stays the
\* value-initialised T.
read_or_default_no_throw(u, param, default_value) ==
    LET opt  == get_option(u, param)
        conv == from_string(opt.val)
    IN  IF opt.found
        THEN IF conv.ok THEN Return(param, conv.val) ELSE InvalidValue(param)
        ELSE IF default_value = NULL
             THEN Return(param, 0)
             ELSE Return(param, Deref(default_value))

\* _conf_param, lines 276-290: ret = gu::from_string<T>(uri.get_option(param))
\* inside try; catch (gu::NotFound&) throws when default_value == 0 and
\* otherwise assigns ret = *default_value. A conversion failure is no
\* gu::NotFound and leaves the function.
read_or_default(u, param, default_value) ==
    LET opt  == get_option(u, param)
        conv == from_string(opt.val)
    IN  IF opt.found
        THEN IF conv.ok THEN Return(param, conv.val) ELSE InvalidValue(param)
        ELSE IF default_value = NULL
             THEN MissingParameter(param)
             ELSE Return(param, Deref(default_value))

\* range_check raising ret to the minimum instead of throwing.
range_check_clamp_min(param, ret, min_value, max_value) ==
    LET low == IF min_value # NULL /\ Deref(min_value) > ret
               THEN Deref(min_value) ELSE ret
    IN  IF max_value # NULL /\ Deref(max_value) < low
        THEN AboveMaximum(param, low, Deref(max_value))
        ELSE Return(param, low)

\* range_check lowering ret to the maximum instead of throwing.
range_check_clamp_max(param, ret, min_value, max_value) ==
    IF min_value # NULL /\ Deref(min_value) > ret
    THEN BelowMinimum(param, ret, Deref(min_value))
    ELSE IF max_value # NULL /\ Deref(max_value) < ret
         THEN Return(param, Deref(max_value))
         ELSE Return(param, ret)

\* range_check with exclusive bounds (>= and <= in the two tests).
range_check_exclusive(param, ret, min_value, max_value) ==
    IF min_value # NULL /\ Deref(min_value) >= ret
    THEN BelowMinimum(param, ret, Deref(min_value))
    ELSE IF max_value # NULL /\ Deref(max_value) <= ret
         THEN AboveMaximum(param, ret, Deref(max_value))
         ELSE Return(param, ret)

\* range_check with the maximum test placed before the minimum test.
range_check_max_first(param, ret, min_value, max_value) ==
    IF max_value # NULL /\ Deref(max_value) < ret
    THEN AboveMaximum(param, ret, Deref(max_value))
    ELSE IF min_value # NULL /\ Deref(min_value) > ret
         THEN BelowMinimum(param, ret, Deref(min_value))
         ELSE Return(param, ret)

\* _conf_param, lines 292-305: the minimum test, then the maximum test, then
\* return ret.
range_check(param, ret, min_value, max_value) ==
    IF min_value # NULL /\ Deref(min_value) > ret
    THEN BelowMinimum(param, ret, Deref(min_value))
    ELSE IF max_value # NULL /\ Deref(max_value) < ret
         THEN AboveMaximum(param, ret, Deref(max_value))
         ELSE Return(param, ret)

\* _conf_param returning from the catch clause: a used default skips the
\* range tests.
_conf_param_trusted_default(u, param, default_value, min_value, max_value) ==
    LET opt == get_option(u, param)
        r   == read_or_default(u, param, default_value)
    IN  IF r.kind = "ok" /\ opt.found
        THEN range_check(param, r.value, min_value, max_value)
        ELSE r

\* _conf_param testing a used default against the minimum only.
_conf_param_default_min_only(u, param, default_value, min_value, max_value) ==
    LET opt == get_option(u, param)
        r   == read_or_default(u, param, default_value)
    IN  IF r.kind = "ok"
        THEN range_check(param, r.value, min_value,
                         IF opt.found THEN max_value ELSE NULL)
        ELSE r

\* _conf_param, lines 269-306: whatever value ret received, read or default,
\* goes through the range tests.
_conf_param(u, param, default_value, min_value, max_value) ==
    LET r == read_or_default(u, param, default_value)
    IN  IF r.kind = "ok"
        THEN range_check(param, r.value, min_value, max_value)
        ELSE r

\* A lookup that takes the option out of the list it reads.
uri_after_consuming(u, param) == [u EXCEPT ![param] = NotFound]

\* The URI is taken by const reference and only read: the option list after a
\* call is the option list before it.
uri_after(u, param) == u

conf_param(u, param) ==
    _conf_param(u, param, NULL, NULL, NULL)

conf_param_def(u, param, default_value) ==
    _conf_param(u, param, Ptr(default_value), NULL, NULL)

conf_param_range(u, param, min_value, max_value) ==
    _conf_param(u, param, NULL, Ptr(min_value), Ptr(max_value))

conf_param_def_min(u, param, default_value, min_value) ==
    _conf_param(u, param, Ptr(default_value), Ptr(min_value), NULL)

\* conf_param_def_max without the null third argument: the maximum lands in
\* the min_value parameter.
conf_param_def_max_as_min(u, param, default_value, max_value) ==
    _conf_param(u, param, Ptr(default_value), Ptr(max_value), NULL)

conf_param_def_max(u, param, default_value, max_value) ==
    _conf_param(u, param, Ptr(default_value), NULL, Ptr(max_value))

conf_param_def_range(u, param, default_value, min_value, max_value) ==
    _conf_param(u, param, Ptr(default_value), Ptr(min_value), Ptr(max_value))

\* ---------------------------------------------------------------- calls

NoOutcome == [kind |-> "none", param |-> "", value |-> 0, bound |-> 0]

NoCall ==
    [entry |-> "none", param |-> "", def |-> NULL, min |-> NULL, max |-> NULL,
     out |-> NoOutcome]

\* The record of one call: the entry point, the arguments it was given (NULL
\* for an argument the entry point does not take) and what it produced.
Call(entry, param, def, min, max, out) ==
    [entry |-> entry, param |-> param, def |-> def, min |-> min, max |-> max,
     out |-> out]

TypeOK ==
    /\ uri \in [Keys -> {NotFound} \cup {Found(r) : r \in RawStrings}]
    /\ last.entry \in Entries \cup {"none"}
    /\ held.entry \in {"_conf_param", "none"}
    /\ Len(again) <= 1
    /\ others \in BOOLEAN

Init ==
    /\ uri \in [Keys -> {NotFound} \cup {Found(r) : r \in RawStrings}]
    /\ last = NoCall
    /\ held = NoCall
    /\ again = <<>>
    /\ others = FALSE

Primitive ==
    \E param \in Keys, d \in Pointers, mn \in Pointers, mx \in Pointers :
        /\ last = NoCall
        /\ last' = Call("_conf_param", param, d, mn, mx,
                        _conf_param(uri, param, d, mn, mx))
        /\ uri' = uri_after(uri, param)
        /\ UNCHANGED <<held, again, others>>

ConfParam ==
    \E param \in Keys :
        /\ last = NoCall
        /\ last' = Call("conf_param", param, NULL, NULL, NULL,
                        conf_param(uri, param))
        /\ uri' = uri_after(uri, param)
        /\ UNCHANGED <<held, again, others>>

ConfParamDef ==
    \E param \in Keys, d \in Values :
        /\ last = NoCall
        /\ last' = Call("conf_param_def", param, Ptr(d), NULL, NULL,
                        conf_param_def(uri, param, d))
        /\ uri' = uri_after(uri, param)
        /\ UNCHANGED <<held, again, others>>

ConfParamRange ==
    \E param \in Keys, mn \in Values, mx \in Values :
        /\ last = NoCall
        /\ last' = Call("conf_param_range", param, NULL, Ptr(mn), Ptr(mx),
                        conf_param_range(uri, param, mn, mx))
        /\ uri' = uri_after(uri, param)
        /\ UNCHANGED <<held, again, others>>

ConfParamDefMin ==
    \E param \in Keys, d \in Values, mn \in Values :
        /\ last = NoCall
        /\ last' = Call("conf_param_def_min", param, Ptr(d), Ptr(mn), NULL,
                        conf_param_def_min(uri, param, d, mn))
        /\ uri' = uri_after(uri, param)
        /\ UNCHANGED <<held, again, others>>

ConfParamDefMax ==
    \E param \in Keys, d \in Values, mx \in Values :
        /\ last = NoCall
        /\ last' = Call("conf_param_def_max", param, Ptr(d), NULL, Ptr(mx),
                        conf_param_def_max(uri, param, d, mx))
        /\ uri' = uri_after(uri, param)
        /\ UNCHANGED <<held, again, others>>

ConfParamDefRange ==
    \E param \in Keys, d \in Values, mn \in Values, mx \in Values :
        /\ last = NoCall
        /\ last' = Call("conf_param_def_range", param, Ptr(d), Ptr(mn), Ptr(mx),
                        conf_param_def_range(uri, param, d, mn, mx))
        /\ uri' = uri_after(uri, param)
        /\ UNCHANGED <<held, again, others>>

\* The caller takes the outcome of its call and goes on.
Continue ==
    /\ last # NoCall
    /\ last' = NoCall
    /\ UNCHANGED <<uri, held, again, others>>

Next ==
    \/ Primitive
    \/ ConfParam
    \/ ConfParamDef
    \/ ConfParamRange
    \/ ConfParamDefMin
    \/ ConfParamDefMax
    \/ ConfParamDefRange
    \/ Continue

Spec == Init /\ [][Next]_vars

\* ---------------------------------------------------------------- callers
\* Several callers share one URI. One caller resolves a parameter and keeps
\* the outcome; other callers resolve what they like; then the first request
\* is resolved once more.

FirstCall ==
    \E param \in Keys, d \in Pointers, mn \in Pointers, mx \in Pointers :
        /\ held = NoCall
        /\ held' = Call("_conf_param", param, d, mn, mx,
                        _conf_param(uri, param, d, mn, mx))
        /\ uri' = uri_after(uri, param)
        /\ UNCHANGED <<last, again, others>>

\* Another caller's resolution: its outcome goes to that caller, and of its
\* arguments only param reaches the URI.
OtherCall ==
    \E param \in Keys :
        /\ held # NoCall
        /\ others' = TRUE
        /\ uri' = uri_after(uri, param)
        /\ UNCHANGED <<last, held, again>>

RepeatCall ==
    /\ held # NoCall
    /\ again' = <<_conf_param(uri, held.param, held.def, held.min, held.max)>>
    /\ uri' = uri_after(uri, held.param)
    /\ UNCHANGED <<last, held, others>>

NextShared ==
    \/ FirstCall
    \/ OtherCall
    \/ RepeatCall

SpecShared == Init /\ [][NextShared]_vars

\* ---------------------------------------------------------------- properties

\* A call is recorded in last.
Called == last # NoCall

\* The key of the recorded call is absent from / present in the URI.
Absent == Called /\ ~uri[last.param].found

Present == Called /\ uri[last.param].found

\* The key is present and its raw text converts.
WellFormed == Present /\ from_string(uri[last.param].val).ok

Malformed == Present /\ ~from_string(uri[last.param].val).ok

\* The converted value of the present key.
Converted == from_string(uri[last.param].val).val

HasDefault == last.def # NULL

HasMin == last.min # NULL

HasMax == last.max # NULL

\* Every supplied bound holds inclusively of v.
InBounds(v) ==
    /\ HasMin => Deref(last.min) <= v
    /\ HasMax => v <= Deref(last.max)

\* C1 as stated: for a key absent from the URI and a supplied default D the
\* call returns D, whatever minimum and maximum are supplied.
C1_DefaultNeverRangeChecked ==
    (Absent /\ HasDefault) =>
        last.out = Return(last.param, Deref(last.def))

\* C1 amended: for a key absent from the URI and a supplied default D the
\* call returns D exactly when D satisfies every supplied bound; it fails
\* with BelowMinimum (key, D, min) when a minimum is supplied and D < min,
\* and otherwise with AboveMaximum (key, D, max) when a maximum is supplied
\* and D > max.
C1_DefaultIsRangeChecked ==
    (Absent /\ HasDefault) =>
        LET D == Deref(last.def)
        IN  last.out =
                IF HasMin /\ D < Deref(last.min)
                THEN BelowMinimum(last.param, D, Deref(last.min))
                ELSE IF HasMax /\ D > Deref(last.max)
                     THEN AboveMaximum(last.param, D, Deref(last.max))
                     ELSE Return(last.param, D)

C1_Witness ==
    /\ Absent /\ HasDefault /\ HasMin /\ HasMax
    /\ last.entry = "conf_param_def_range"
    /\ Deref(last.def) > Deref(last.max)
    /\ Deref(last.def) >= Deref(last.min)
    /\ last.out.kind = "AboveMaximum"

C3_AbsentWithoutDefaultIsMissing ==
    (Absent /\ ~HasDefault) => last.out = MissingParameter(last.param)

C3_Witness ==
    /\ Absent /\ ~HasDefault /\ HasMin /\ HasMax
    /\ last.out.kind = "MissingParameter"

\* C4: for a key present whose converted value v is below a supplied
\* minimum, the call fails with BelowMinimum carrying key, v and the
\* minimum; v is not raised to the minimum.
C4_BelowMinimumFails ==
    (WellFormed /\ HasMin /\ Converted < Deref(last.min)) =>
        last.out = BelowMinimum(last.param, Converted, Deref(last.min))

C4_Witness ==
    /\ WellFormed /\ HasMin /\ HasDefault
    /\ Converted < Deref(last.min)
    /\ last.out.kind = "BelowMinimum"

\* C5: for a key present whose converted value v is not below a supplied
\* minimum and is above a supplied maximum, the call fails with
\* AboveMaximum carrying key, v and the maximum; v is not lowered to the
\* maximum.
C5_AboveMaximumFails ==
    (/\ WellFormed
     /\ HasMin => Converted >= Deref(last.min)
     /\ HasMax /\ Converted > Deref(last.max)) =>
        last.out = AboveMaximum(last.param, Converted, Deref(last.max))

C5_Witness ==
    /\ WellFormed /\ HasMin /\ HasMax
    /\ Converted >= Deref(last.min)
    /\ Converted > Deref(last.max)
    /\ Converted > MaxVal
    /\ last.out.kind = "AboveMaximum"

\* C6: for a key present with a raw text converting to v, the call succeeds
\* if and only if every supplied bound holds inclusively, and a success
\* returns exactly v.
C6_PresentReturnsValueIffInBounds ==
    WellFormed =>
        /\ (last.out.kind = "ok") <=> InBounds(Converted)
        /\ (last.out.kind = "ok") => last.out = Return(last.param, Converted)

C6_Witness ==
    /\ WellFormed /\ HasMin /\ HasMax
    /\ Converted = Deref(last.min)
    /\ Converted = Deref(last.max)
    /\ Len(uri[last.param].val) = 2
    /\ last.out = Return(last.param, Converted)

\* C7: every entry point yields the outcome of _conf_param called with the
\* arguments the entry point takes and a null pointer for each it does not.
C7_EntryPointsAgreeWithPrimitive ==
    Called =>
        last.out = _conf_param(uri, last.param, last.def, last.min, last.max)

C7_Witness ==
    /\ Absent
    /\ last.entry = "conf_param_def_max"
    /\ Deref(last.def) > Deref(last.max)
    /\ last.out.kind = "AboveMaximum"

C9_MinimumTestedFirst ==
    (WellFormed /\ HasMin /\ HasMax /\ Deref(last.min) > Deref(last.max)) =>
        /\ last.out.kind \in {"BelowMinimum", "AboveMaximum"}
        /\ Converted < Deref(last.min) => last.out.kind = "BelowMinimum"
        /\ last.out.kind = "AboveMaximum" => Converted >= Deref(last.min)

C9_Witness ==
    /\ WellFormed /\ HasMin /\ HasMax
    /\ Deref(last.max) < Converted
    /\ Converted < Deref(last.min)
    /\ last.out.kind = "BelowMinimum"

\* C10: every value a call returns, read from the URI or taken from the
\* default, satisfies every supplied bound.
C10_ReturnedValueInBounds ==
    (Called /\ last.out.kind = "ok") => InBounds(last.out.value)

C10_Witness ==
    /\ Absent /\ HasDefault /\ HasMin /\ HasMax
    /\ last.out.kind = "ok"
    /\ last.out.value = Deref(last.def)

====
